---- MODULE Spec2Model ----
(***************************************************************************)
(* The publish_badge Netlify function: a request handler that validates a *)
(* course-completion form, obtains a Badgr token, creates a badge          *)
(* assertion, then emails the badge link and logs a row in a Google Sheet. *)
(*                                                                         *)
(* Two handlers live in the repository: publish_badge.mts (variant "full": *)
(* full_name, email and spreadsheet steps) and an earlier copy (variant    *)
(* "open": no full_name, email sending postponed).                         *)
(*                                                                         *)
(* JavaScript strings are sequences of one-character strings.  JavaScript  *)
(* values that may be null/undefined/object are records [t, v].            *)
(***************************************************************************)
EXTENDS Integers, Sequences, FiniteSets, TLC

VARIABLES h

vars == <<h>>

(***************************************************************************)
(* Bounds of the model.                                                    *)
(***************************************************************************)
\* longest string of the exhaustive short-string family fed to each field
MaxLen == 2

(***************************************************************************)
(* Characters and character classes of the regular expressions.            *)
(***************************************************************************)
UpperCase == <<"A", "B", "C", "D", "E", "F", "G", "H", "I", "J", "K", "L", "M", "N", "O", "P", "Q", "R", "S", "T", "U", "V", "W", "X", "Y", "Z">>
LowerCase == <<"a", "b", "c", "d", "e", "f", "g", "h", "i", "j", "k", "l", "m", "n", "o", "p", "q", "r", "s", "t", "u", "v", "w", "x", "y", "z">>
Digits == {"0", "1", "2", "3", "4", "5", "6", "7", "8", "9"}
Letters == {UpperCase[k] : k \in 1..26} \cup {LowerCase[k] : k \in 1..26}

\* \s of a JavaScript regular expression, and the characters trim() removes
WhiteSpace == {" ", "\t", "\n", "\r", "\f"}

\* \w of a JavaScript regular expression: [A-Za-z0-9_]
WordChar == Letters \cup Digits \cup {"_"}

\* the characters the class [^\w\s'-] does NOT match, i.e. those kept
KeptBySanitize == WordChar \cup WhiteSpace \cup {"'", "-"}

(***************************************************************************)
(* String primitives of the JavaScript runtime.                            *)
(***************************************************************************)
\* String.prototype.trim: drop the white space before the first and after
\* the last character that is not white space
trim(s) ==
    LET solid == {k \in 1..Len(s) : s[k] \notin WhiteSpace}
    IN IF solid = {} THEN <<>>
       ELSE SubSeq(s, CHOOSE k \in solid : \A m \in solid : k <= m,
                      CHOOSE k \in solid : \A m \in solid : k >= m)

LowerOf(c) ==
    IF \E k \in 1..26 : UpperCase[k] = c
    THEN LowerCase[CHOOSE k \in 1..26 : UpperCase[k] = c]
    ELSE c

\* String.prototype.toLowerCase
toLowerCase(s) == [k \in 1..Len(s) |-> LowerOf(s[k])]

\* String.prototype.substring(0, n)
substring0(s, n) == SubSeq(s, 1, IF Len(s) < n THEN Len(s) ELSE n)

\* String.prototype.startsWith
startsWith(s, p) == Len(s) >= Len(p) /\ SubSeq(s, 1, Len(p)) = p

\* s.replace(/[^...]/g, ""): delete every character outside the kept class
StripOutside(s, kept) ==
    LET Keep(c) == c \in kept IN SelectSeq(s, Keep)

(***************************************************************************)
(* JavaScript values: undefined, null, a string, or a non-string object.   *)
(***************************************************************************)
Undefined == [t |-> "undefined", v |-> <<>>]
Null == [t |-> "null", v |-> <<>>]
Str(s) == [t |-> "string", v |-> s]
\* a member inherited from Object.prototype (a function or an object)
InheritedMember == [t |-> "object", v |-> <<>>]

\* ToBoolean: null, undefined and "" are falsy
Truthy(x) == x.t = "object" \/ (x.t = "string" /\ x.v # <<>>)

\* a || b
OrElse(a, b) == IF Truthy(a) THEN a ELSE b

(***************************************************************************)
(* Sanitizers of the handler.                                              *)
(***************************************************************************)
sanitizeString(s) == StripOutside(trim(s), KeptBySanitize)

sanitizeEmail(email) == toLowerCase(trim(email))

FullNameMax == 100

sanitizeFullName(s) == substring0(sanitizeString(s), FullNameMax)

\* /^[^@]+@[^@]+\.[^@]+$/ : exactly one "@", something before it, and after
\* it a "." that is neither the first nor the last character of the rest
isValidEmail(email) ==
    \E a \in 1..Len(email) :
        /\ email[a] = "@"
        /\ \A k \in 1..Len(email) : email[k] = "@" => k = a
        /\ a > 1
        /\ \E d \in (a + 2)..(Len(email) - 1) : email[d] = "."

(***************************************************************************)
(* Static registries.                                                      *)
(***************************************************************************)
PYSJ_SP == <<"g", "_", "A", "M", "m", "-", "v", "O", "S", "C", "6", "q", "4", "_", "o", "B", "2", "E", "M", "w", "K", "w">>
LE_SP == <<"H", "N", "P", "D", "H", "n", "a", "h", "Q", "p", "S", "J", "f", "H", "M", "k", "R", "F", "Q", "Y", "4", "g">>
BCLS_SP == <<"o", "1", "t", "F", "4", "8", "x", "d", "R", "0", "C", "K", "v", "J", "K", "g", "s", "H", "i", "2", "c", "w">>
SYR_SP == <<"c", "8", "7", "t", "A", "Y", "N", "d", "S", "V", "W", "T", "l", "W", "i", "j", "e", "G", "-", "H", "O", "g">>
SEPE_SP == <<"I", "1", "H", "j", "g", "2", "3", "Q", "T", "-", "K", "o", "W", "G", "A", "M", "w", "h", "9", "9", "Q", "A">>
BYRC_SP == <<"K", "e", "0", "R", "M", "b", "a", "h", "Q", "V", "e", "P", "B", "u", "x", "b", "j", "a", "A", "U", "w", "A">>
CPECS_SP == <<"q", "4", "z", "b", "M", "x", "L", "M", "R", "U", "e", "t", "Y", "m", "F", "L", "p", "0", "2", "3", "K", "A">>
TSP_SP == <<"2", "D", "o", "w", "u", "t", "S", "b", "Q", "a", "a", "B", "E", "K", "S", "x", "g", "2", "V", "N", "U", "Q">>

badgeClassToCourseId ==
    (PYSJ_SP :> <<"1", "1", "3", "4", "6", "6", "0", "8">>)
    @@ (LE_SP :> <<"1", "1", "3", "4", "6", "6", "1", "2">>)
    @@ (BCLS_SP :> <<"1", "3", "4", "6", "6", "1", "6">>)
    @@ (SYR_SP :> <<"1", "1", "3", "4", "6", "5", "9", "5">>)
    @@ (SEPE_SP :> <<"1", "1", "2", "2", "9", "3", "0", "9">>)
    @@ (BYRC_SP :> <<"1", "1", "1", "7", "6", "6", "3", "4">>)
    @@ (CPECS_SP :> <<"1", "1", "2", "7", "5", "4", "7", "6">>)
    @@ (TSP_SP :> <<"1", "1", "2", "7", "6", "0", "2", "9">>)

\* the access codes of publish_badge.mts
badgeClassToAccessCode ==
    (PYSJ_SP :> <<"P", "Y", "S", "J", "_", "4", "1", "5", "_", "G", "H">>)
    @@ (LE_SP :> <<"L", "E", "_", "6", "2", "8", "_", "B", "G">>)
    @@ (BCLS_SP :> <<"B", "C", "L", "S", "_", "6", "5", "0", "_", "R", "6">>)
    @@ (SYR_SP :> <<"S", "R", "Y", "_", "5", "3", "5", "_", "3", "K">>)
    @@ (SEPE_SP :> <<"S", "E", "P", "E", "_", "6", "1", "3", "4", "_", "O", "G">>)
    @@ (BYRC_SP :> <<"B", "Y", "R", "C", "_", "5", "2", "3", "_", "R", "A">>)
    @@ (CPECS_SP :> <<"C", "P", "E", "C", "S", "_", "0", "6", "1", "_", "S", "9">>)
    @@ (TSP_SP :> <<"T", "S", "P", "_", "B", "R", "5", "_", "1", "5">>)

\* the access codes of the earlier copy of the handler
badgeClassToAccessCodeOpen ==
    (PYSJ_SP :> <<"A", "C", "C", "E", "S", "S", "C", "O", "D", "E", "1">>)
    @@ (LE_SP :> <<"L", "E", "_", "6", "2", "8", "_", "B", "G">>)
    @@ (BCLS_SP :> <<"A", "C", "C", "E", "S", "S", "C", "O", "D", "E", "3">>)
    @@ (SYR_SP :> <<"A", "C", "C", "E", "S", "S", "C", "O", "D", "E", "4">>)
    @@ (SEPE_SP :> <<"A", "C", "C", "E", "S", "S", "C", "O", "D", "E", "5">>)
    @@ (BYRC_SP :> <<"A", "C", "C", "E", "S", "S", "C", "O", "D", "E", "6">>)
    @@ (CPECS_SP :> <<"A", "C", "C", "E", "S", "S", "C", "O", "D", "E", "7">>)
    @@ (TSP_SP :> <<"A", "C", "C", "E", "S", "S", "C", "O", "D", "E", "8">>)

AccessCodeRegistry(variant) ==
    IF variant = "full" THEN badgeClassToAccessCode ELSE badgeClassToAccessCodeOpen

\* names every plain object inherits from Object.prototype
ObjectPrototypeMembers == {
    <<"c", "o", "n", "s", "t", "r", "u", "c", "t", "o", "r">>,
    <<"t", "o", "S", "t", "r", "i", "n", "g">>,
    <<"_", "_", "p", "r", "o", "t", "o", "_", "_">>,
    <<"v", "a", "l", "u", "e", "O", "f">>,
    <<"h", "a", "s", "O", "w", "n", "P", "r", "o", "p", "e", "r", "t", "y">>,
    <<"i", "s", "P", "r", "o", "t", "o", "t", "y", "p", "e", "O", "f">>,
    <<"p", "r", "o", "p", "e", "r", "t", "y", "I", "s", "E", "n", "u", "m", "e", "r", "a", "b", "l", "e">>,
    <<"t", "o", "L", "o", "c", "a", "l", "e", "S", "t", "r", "i", "n", "g">>,
    <<"_", "_", "d", "e", "f", "i", "n", "e", "G", "e", "t", "t", "e", "r", "_", "_">>,
    <<"_", "_", "d", "e", "f", "i", "n", "e", "S", "e", "t", "t", "e", "r", "_", "_">>,
    <<"_", "_", "l", "o", "o", "k", "u", "p", "G", "e", "t", "t", "e", "r", "_", "_">>,
    <<"_", "_", "l", "o", "o", "k", "u", "p", "S", "e", "t", "t", "e", "r", "_", "_">> }

\* obj[key] on an object literal: an own property, else a member of the
\* prototype chain, else undefined
GetProperty(obj, key) ==
    IF key \in DOMAIN obj THEN Str(obj[key])
    ELSE IF key \in ObjectPrototypeMembers THEN InheritedMember
    ELSE Undefined

\* "https://publishbadge.netlify.app"
TrustedOrigin == <<"h", "t", "t", "p", "s", ":", "/", "/", "p", "u", "b", "l", "i", "s", "h", "b", "a", "d", "g", "e", ".", "n", "e", "t", "l", "i", "f", "y", ".", "a", "p", "p">>

\* the origin test written with includes() instead of startsWith()
OriginAllowed_includes(originHeader) ==
    /\ Truthy(originHeader)
    /\ \E k \in 0..(Len(originHeader.v) - Len(TrustedOrigin)) :
         SubSeq(originHeader.v, k + 1, k + Len(TrustedOrigin)) = TrustedOrigin

\* the origin test of Step 0, on originHeader = origin || referer
OriginAllowed(originHeader) ==
    Truthy(originHeader) /\ startsWith(originHeader.v, TrustedOrigin)

(***************************************************************************)
(* The state of one invocation of the handler.                             *)
(***************************************************************************)
Invocations == {"inv1"}
Variants == {"full", "open"}

NoResponse == [status |-> 0, text |-> "none"]
\* A response of the token endpoint as the handler sees it: fetch threw, or
\* returned with .ok, a body that json() parses or not ("invalid"), that is
\* null or an object, whose access_token is a JavaScript value.
NoTokenResponse ==
    [threw |-> FALSE, ok |-> FALSE, json |-> "none", access_token |-> Undefined]
\* A response of the assertion endpoint: result is the shape of
\* badgeJson?.result ("undefined", "notArray", "empty", "firstNull": a list
\* whose first element is null, "list": a list whose first element is an
\* object with the given openBadgeId).
NoBadgeResponse ==
    [threw |-> FALSE, ok |-> FALSE, json |-> "none", result |-> "undefined",
     openBadgeId |-> Undefined]
NoParams == [email |-> Null, badge_class_id |-> Null, access_code |-> Null, full_name |-> Null]
NoCalls == [token |-> 0, assertion |-> 0, email |-> 0, sheetToken |-> 0, sheetAppend |-> 0]

\* the state the handler is in when the platform invokes it
Invoked(variant) ==
    [ variant      |-> variant,
      accessCodes  |-> AccessCodeRegistry(variant),  \* the table the handler reads
      pc           |-> "start",
      origin       |-> Null,          \* request.headers.get("origin")
      referer      |-> Null,          \* request.headers.get("referer")
      method       |-> "none",        \* request.method
      bodyText     |-> "none",        \* "none" (not read), "empty" or "form"
      params       |-> NoParams,      \* the decoded fields of the body
      studentEmail |-> Null,
      badgeClassId |-> Null,
      accessCode   |-> Null,
      fullName     |-> Null,
      BADGR_PASSWORD |-> Undefined,
      tokenResponse |-> NoTokenResponse,
      accessToken  |-> Undefined,
      badgeResponse |-> NoBadgeResponse,
      openBadgeId  |-> Undefined,
      emailTask    |-> "none",        \* outcome of sendEmail
      emailTo      |-> Undefined,
      emailBadgeUrl |-> Undefined,
      sheetTask    |-> "none",        \* outcome of appendToGoogleSheet
      sheetRow     |-> <<>>,
      started      |-> [email |-> 0, sheet |-> 0],
      calls        |-> NoCalls,
      response     |-> NoResponse ]

\* return new Response(text, { status })
Respond(r, status, text) ==
    [r EXCEPT !.pc = "done", !.response = [status |-> status, text |-> text]]

UpstreamCalls(r) ==
    r.calls.token + r.calls.assertion + r.calls.email
    + r.calls.sheetToken + r.calls.sheetAppend

(***************************************************************************)
(* Field sanitation and validation: the synchronous code between reading   *)
(* the body and loading the Badgr credentials.                             *)
(***************************************************************************)
Sanitized(r, params) ==
    [r EXCEPT !.params = params,
              !.studentEmail = IF Truthy(params.email)
                               THEN Str(sanitizeEmail(params.email.v))
                               ELSE params.email,
              !.badgeClassId = IF Truthy(params.badge_class_id)
                               THEN Str(trim(params.badge_class_id.v))
                               ELSE params.badge_class_id,
              !.accessCode = IF Truthy(params.access_code)
                             THEN Str(sanitizeString(params.access_code.v))
                             ELSE params.access_code,
              !.fullName = IF r.variant # "full" THEN Null
                           ELSE IF Truthy(params.full_name)
                           THEN Str(sanitizeFullName(params.full_name.v))
                           ELSE params.full_name]

\* if (!studentEmail || !badgeClassId || !accessCode || !fullName)
MissingRequired(r) ==
    \/ ~Truthy(r.studentEmail)
    \/ ~Truthy(r.badgeClassId)
    \/ ~Truthy(r.accessCode)
    \/ (r.variant = "full" /\ ~Truthy(r.fullName))

expectedCourseId(r) == GetProperty(badgeClassToCourseId, r.badgeClassId.v)

expectedAccessCode(r) == GetProperty(r.accessCodes, r.badgeClassId.v)

\* the access code compared without regard to case
AccessCodeMismatch_ignoreCase(r) ==
    \/ r.accessCode.t # expectedAccessCode(r).t
    \/ toLowerCase(r.accessCode.v) # toLowerCase(expectedAccessCode(r).v)

\* accessCode !== expectedAccessCode
AccessCodeMismatch(r) == r.accessCode # expectedAccessCode(r)

\* validation without the test of the access-code table
ValidationFailure_noTableTest(r) ==
    IF MissingRequired(r) THEN [status |-> 400, text |-> "Missing required form data."]
    ELSE IF ~isValidEmail(r.studentEmail.v) THEN [status |-> 400, text |-> "Invalid email format."]
    ELSE IF ~Truthy(expectedCourseId(r)) THEN [status |-> 400, text |-> "Invalid badge_class_id."]
    ELSE IF AccessCodeMismatch(r) THEN [status |-> 403, text |-> "Invalid access code."]
    ELSE NoResponse

\* the response of the first failing check, or NoResponse when all pass
\* the validation without the email shape check
ValidationFailure_noEmailTest(r) ==
    IF MissingRequired(r) THEN [status |-> 400, text |-> "Missing required form data."]
    ELSE IF ~Truthy(expectedCourseId(r)) THEN [status |-> 400, text |-> "Invalid badge_class_id."]
    ELSE IF ~Truthy(expectedAccessCode(r)) THEN [status |-> 500, text |-> "Internal configuration error"]
    ELSE IF AccessCodeMismatch(r) THEN [status |-> 403, text |-> "Invalid access code."]
    ELSE NoResponse

ValidationFailure(r) ==
    IF MissingRequired(r) THEN [status |-> 400, text |-> "Missing required form data."]
    ELSE IF ~isValidEmail(r.studentEmail.v) THEN [status |-> 400, text |-> "Invalid email format."]
    ELSE IF ~Truthy(expectedCourseId(r)) THEN [status |-> 400, text |-> "Invalid badge_class_id."]
    ELSE IF ~Truthy(expectedAccessCode(r)) THEN [status |-> 500, text |-> "Internal configuration error"]
    ELSE IF AccessCodeMismatch(r) THEN [status |-> 403, text |-> "Invalid access code."]
    ELSE NoResponse

(***************************************************************************)
(* Step 1: the access token (the code after the token fetch returns).     *)
(***************************************************************************)
\* Step 1 without the "if (!tokenResponse.ok)" test
TokenStepThrows_noOkTest(resp) == resp.threw \/ resp.json = "invalid"

\* the conditions under which the try block of Step 1 throws
TokenStepThrows(resp) == resp.threw \/ ~resp.ok \/ resp.json = "invalid"

\* tokenJson?.access_token
AccessTokenOf(resp) == IF resp.json = "object" THEN resp.access_token ELSE Undefined

\* Step 1 answering a failed token call with 403 instead of 500
AfterTokenResponse_forbidden(r, resp) ==
    LET r1 == [r EXCEPT !.tokenResponse = resp] IN
    IF TokenStepThrows(resp)
    THEN Respond(r1, 403, "Error obtaining access token")
    ELSE IF ~Truthy(AccessTokenOf(resp))
    THEN Respond(r1, 403, "Failed to retrieve access token from Badgr.")
    ELSE [r1 EXCEPT !.accessToken = AccessTokenOf(resp),
                    !.calls.assertion = @ + 1,
                    !.pc = "awaitBadge"]

\* Step 1 skipping the assertion call when another invocation already
\* issued one for the same recipient and badge class
AfterTokenResponse_dedup(r, resp) ==
    LET r1 == [r EXCEPT !.tokenResponse = resp] IN
    IF TokenStepThrows(resp)
    THEN Respond(r1, 500, "Error obtaining access token")
    ELSE IF ~Truthy(AccessTokenOf(resp))
    THEN Respond(r1, 500, "Failed to retrieve access token from Badgr.")
    ELSE IF \E j \in DOMAIN h : /\ h[j].calls.assertion > 0
                                /\ h[j].studentEmail = r.studentEmail
                                /\ h[j].badgeClassId = r.badgeClassId
    THEN Respond([r1 EXCEPT !.accessToken = AccessTokenOf(resp)], 200,
                 "Submission received. Please watch your email for notification of your badge creation.")
    ELSE [r1 EXCEPT !.accessToken = AccessTokenOf(resp),
                    !.calls.assertion = @ + 1,
                    !.pc = "awaitBadge"]

\* Step 1 fetching the token a second time after a failed first attempt
AfterTokenResponse_retry(r, resp) ==
    LET r1 == [r EXCEPT !.tokenResponse = resp] IN
    IF TokenStepThrows(resp)
    THEN IF r.calls.token < 2
         THEN [r1 EXCEPT !.calls.token = @ + 1, !.pc = "awaitToken"]
         ELSE Respond(r1, 500, "Error obtaining access token")
    ELSE IF ~Truthy(AccessTokenOf(resp))
    THEN Respond(r1, 500, "Failed to retrieve access token from Badgr.")
    ELSE [r1 EXCEPT !.accessToken = AccessTokenOf(resp),
                    !.calls.assertion = @ + 1,
                    !.pc = "awaitBadge"]

\* Step 1 without its try/catch: a rejected token fetch leaves the handler
\* as an unhandled error and no Response is produced
AfterTokenResponse_uncaught(r, resp) ==
    LET r1 == [r EXCEPT !.tokenResponse = resp] IN
    IF TokenStepThrows(resp)
    THEN [r1 EXCEPT !.pc = "crashed"]
    ELSE IF ~Truthy(AccessTokenOf(resp))
    THEN Respond(r1, 500, "Failed to retrieve access token from Badgr.")
    ELSE [r1 EXCEPT !.accessToken = AccessTokenOf(resp),
                    !.calls.assertion = @ + 1,
                    !.pc = "awaitBadge"]

AfterTokenResponse(r, resp) ==
    LET r1 == [r EXCEPT !.tokenResponse = resp] IN
    IF TokenStepThrows(resp)
    THEN Respond(r1, 500, "Error obtaining access token")
    ELSE IF ~Truthy(AccessTokenOf(resp))
    THEN Respond(r1, 500, "Failed to retrieve access token from Badgr.")
    ELSE \* Step 2 starts: fetch(badgeEndpoint, ...)
         [r1 EXCEPT !.accessToken = AccessTokenOf(resp),
                    !.calls.assertion = @ + 1,
                    !.pc = "awaitBadge"]

(***************************************************************************)
(* Step 2: the badge assertion (the code after the badge fetch returns).  *)
(***************************************************************************)
\* Step 2 without the "if (!openBadgeId)" test
BadgeStepThrows_noIdTest(resp) ==
    \/ resp.threw
    \/ ~resp.ok
    \/ resp.json = "invalid"
    \/ resp.json = "null"
    \/ resp.result \in {"undefined", "notArray", "empty"}
    \/ resp.result = "firstNull"

\* the conditions under which the try block of Step 2 throws
BadgeStepThrows(resp) ==
    \/ resp.threw
    \/ ~resp.ok
    \/ resp.json = "invalid"
    \/ resp.json = "null"                                   \* badgeJson?.result
    \/ resp.result \in {"undefined", "notArray", "empty"}   \* format check
    \/ resp.result = "firstNull"                            \* TypeError
    \/ ~Truthy(resp.openBadgeId)                            \* !openBadgeId

FinalText(variant) ==
    IF variant = "full"
    THEN "Submission received. Please watch your email for notification of your badge creation."
    ELSE "Submission received. Please watch your email for your notification of your badge creation."

\* the end of the handler
Acknowledge(r) == Respond(r, 200, FinalText(r.variant))

(***************************************************************************)
(* Step 4: appendToGoogleSheet up to its first network call.               *)
(***************************************************************************)
ValidServiceAccountJson == {<<"{", "}">>}

\* the outcome of the synchronous prefix of appendToGoogleSheet and
\* getGoogleSheetsAccessToken: an error that is thrown, or "token_pending"
SheetPrefixOutcome(sheetId, serviceAccountJson) ==
    IF ~Truthy(sheetId) THEN "no_sheet_id"
    ELSE IF ~Truthy(serviceAccountJson) THEN "no_service_account"
    ELSE IF serviceAccountJson.v \notin ValidServiceAccountJson THEN "bad_service_account"
    ELSE "token_pending"

\* Step 4 without its try/catch: a configuration error of the spreadsheet
\* task reaches the platform, which answers 500
StartSheetTask_uncaught(r, sheetId, serviceAccountJson) ==
    LET outcome == SheetPrefixOutcome(sheetId, serviceAccountJson)
        r1 == [r EXCEPT !.started.sheet = @ + 1,
                        !.sheetRow = <<r.fullName, r.studentEmail, r.openBadgeId>>,
                        !.sheetTask = outcome]
    IN IF outcome = "token_pending"
       THEN [r1 EXCEPT !.calls.sheetToken = @ + 1, !.pc = "awaitSheetToken"]
       ELSE Respond(r1, 500, "Internal Server Error")

\* Step 4 logging the badge class id in the column of the badge URL
StartSheetTask_classIdLogged(r, sheetId, serviceAccountJson) ==
    LET outcome == SheetPrefixOutcome(sheetId, serviceAccountJson)
        r1 == [r EXCEPT !.started.sheet = @ + 1,
                        !.sheetRow = <<r.fullName, r.studentEmail, r.badgeClassId>>,
                        !.sheetTask = outcome]
    IN IF outcome = "token_pending"
       THEN [r1 EXCEPT !.calls.sheetToken = @ + 1, !.pc = "awaitSheetToken"]
       ELSE Acknowledge(r1)

StartSheetTask(r, sheetId, serviceAccountJson) ==
    LET outcome == SheetPrefixOutcome(sheetId, serviceAccountJson)
        r1 == [r EXCEPT !.started.sheet = @ + 1,
                        !.sheetRow = <<r.fullName, r.studentEmail, r.openBadgeId>>,
                        !.sheetTask = outcome]
    IN IF outcome = "token_pending"
       THEN [r1 EXCEPT !.calls.sheetToken = @ + 1, !.pc = "awaitSheetToken"]
       ELSE Acknowledge(r1)    \* caught by the try of Step 4

(***************************************************************************)
(* Step 3: sendEmail up to its network call.                               *)
(***************************************************************************)
\* Steps 3 and 4 inside one try block: an email error skips the spreadsheet
StartEmailTask_oneTry(r, postmarkToken, sheetId, serviceAccountJson) ==
    LET r1 == [r EXCEPT !.started.email = @ + 1,
                        !.emailTo = r.studentEmail,
                        !.emailBadgeUrl = r.openBadgeId]
    IN IF ~Truthy(postmarkToken)
       THEN Acknowledge([r1 EXCEPT !.emailTask = "no_token"])
       ELSE [r1 EXCEPT !.emailTask = "pending",
                       !.calls.email = @ + 1,
                       !.pc = "awaitEmail"]

StartEmailTask(r, postmarkToken, sheetId, serviceAccountJson) ==
    LET r1 == [r EXCEPT !.started.email = @ + 1,
                        !.emailTo = r.studentEmail,
                        !.emailBadgeUrl = r.openBadgeId]
    IN IF ~Truthy(postmarkToken)
       THEN \* thrown and caught by the try of Step 3; Step 4 follows
            StartSheetTask([r1 EXCEPT !.emailTask = "no_token"], sheetId, serviceAccountJson)
       ELSE [r1 EXCEPT !.emailTask = "pending",
                       !.calls.email = @ + 1,
                       !.pc = "awaitEmail"]

AfterBadgeResponse(r, resp, postmarkToken, sheetId, serviceAccountJson) ==
    LET r1 == [r EXCEPT !.badgeResponse = resp] IN
    IF BadgeStepThrows(resp)
    THEN Respond(r1, 500, "Error creating badge")
    ELSE LET r2 == [r1 EXCEPT !.openBadgeId = resp.openBadgeId] IN
         IF r.variant = "full"
         THEN StartEmailTask(r2, postmarkToken, sheetId, serviceAccountJson)
         ELSE Acknowledge(r2)   \* email sending is postponed

(***************************************************************************)
(* The inputs of an invocation: request headers, method, body, the         *)
(* environment, and what the upstream services answer.                     *)
(***************************************************************************)
Repeat(c, n) == [k \in 1..n |-> c]

\* every string over alphabet of length at most n
RECURSIVE StringsUpTo(_, _)
StringsUpTo(alphabet, n) ==
    IF n = 0 THEN {<<>>}
    ELSE LET shorter == StringsUpTo(alphabet, n - 1)
         IN shorter \cup {<<c>> \o t : c \in alphabet, t \in {u \in shorter : Len(u) = n - 1}}

\* "https://evil.example"
ForeignOrigin == <<"h", "t", "t", "p", "s", ":", "/", "/", "e", "v", "i", "l", ".", "e", "x", "a", "m", "p", "l", "e">>

HeaderValues ==
    { Null, Str(<<>>),
      Str(TrustedOrigin),
      Str(TrustedOrigin \o <<".", "e", "v", "i", "l", ".", "e", "x", "a", "m", "p", "l", "e">>),
      Str(SubSeq(TrustedOrigin, 1, Len(TrustedOrigin) - 1)),
      Str(<<"h", "t", "t", "p", ":">> \o SubSeq(TrustedOrigin, 7, Len(TrustedOrigin))),
      Str(<<"x">> \o TrustedOrigin),
      Str(ForeignOrigin) }

\* the (origin, referer) pairs of the requests: one header alone, an empty
\* or absent origin with any referer, and a trusted header next to a foreign one
HeaderPairs ==
    { <<o, Null>> : o \in HeaderValues }
    \cup { <<o, f>> : o \in {Null, Str(<<>>)}, f \in HeaderValues }
    \cup { <<Str(TrustedOrigin), Str(ForeignOrigin)>>, <<Str(ForeignOrigin), Str(TrustedOrigin)>> }

Methods == {"POST", "GET", "OPTIONS"}

\* short strings tried as email and badge_class_id
WideAlphabet == {"a", "Z", "7", "_", " ", "!", "'", "-", "@", "."}
WideStrings == StringsUpTo(WideAlphabet, MaxLen)
\* short strings tried as access_code and full_name: a kept letter, the
\* underscore, white space and a stripped character
ShortStrings == StringsUpTo({"a", "_", " ", "!"}, MaxLen)

ValidEmailText == <<"a", "@", "b", ".", "c", "o", "m">>
ValidNameText == <<"J", "a", "n", "e", " ", "D", "o", "e">>

EmailSamples ==
    { Null, Str(<<>>), Str(<<" ">>), Str(ValidEmailText),
      Str(<<" ", "A", "@", "B", ".", "c", "o", " ">>),
      Str(<<"a", "@", "b">>), Str(<<"a", "@", "@", "b", ".", "c">>),
      Str(<<"n", "o", "t", "-", "a", "n", "-", "e", "m", "a", "i", "l">>) }

ClassSamples ==
    { Null, Str(<<>>), Str(PYSJ_SP), Str(<<" ">> \o LE_SP \o <<"\t">>),
      Str(toLowerCase(PYSJ_SP)), Str(<<"x">>) }
    \cup {Str(k) : k \in {<<"c", "o", "n", "s", "t", "r", "u", "c", "t", "o", "r">>, <<"t", "o", "S", "t", "r", "i", "n", "g">>, <<"_", "_", "p", "r", "o", "t", "o", "_", "_">>}}

CodeSamples ==
    { Null, Str(<<>>), Str(<<"!", " ", "!">>),
      Str(badgeClassToAccessCode[PYSJ_SP]),
      Str(badgeClassToAccessCodeOpen[PYSJ_SP]),
      Str(badgeClassToAccessCode[LE_SP]),
      Str(toLowerCase(badgeClassToAccessCode[PYSJ_SP])),
      Str(<<" ", "!">> \o badgeClassToAccessCode[PYSJ_SP] \o <<"!", "\n">>),
      Str(badgeClassToAccessCode[PYSJ_SP] \o <<"x">>) }

NameSamples ==
    { Null, Str(<<>>), Str(ValidNameText), Str(<<"!", " ", "!">>),
      Str(<<"O", "'", "N", "-", "x", "_", "y", ".">>) }

\* names around the length limit: an optional stripped character, then two runs
LongNames ==
    { p \o Repeat(c1, n1) \o Repeat(c2, n2) :
        p \in {<<>>, <<"!">>},
        c1 \in {"a", " ", "_"}, c2 \in {"a"},
        n1 \in {FullNameMax - 1, FullNameMax, FullNameMax + 1}, n2 \in {0, 1} }

Params(e, b, a, f) == [email |-> e, badge_class_id |-> b, access_code |-> a, full_name |-> f]

\* a form every check of the given variant accepts, for the given badge class
ValidParams(variant, class) ==
    Params(Str(ValidEmailText), Str(class),
           Str(AccessCodeRegistry(variant)[class]), Str(ValidNameText))

\* the decoded forms a request body may carry
Forms(variant) ==
    \* combinations of typical good and bad values of the four fields
    { Params(e, b, a, f) : e \in EmailSamples, b \in ClassSamples,
                           a \in CodeSamples, f \in NameSamples }
    \* every badge class with every registered access code
    \cup { [ValidParams(variant, class) EXCEPT !.access_code = Str(AccessCodeRegistry(variant)[other])] :
             class \in DOMAIN badgeClassToCourseId, other \in DOMAIN badgeClassToCourseId }
    \* one field of a valid form replaced by any short string
    \cup { [ValidParams(variant, PYSJ_SP) EXCEPT ![fld] = Str(t)] :
             fld \in {"email", "badge_class_id"}, t \in WideStrings }
    \cup { [ValidParams(variant, PYSJ_SP) EXCEPT ![fld] = Str(t)] :
             fld \in {"access_code", "full_name"}, t \in ShortStrings }
    \* a valid code followed or preceded by a short string
    \cup { [ValidParams(variant, PYSJ_SP) EXCEPT !.access_code = Str(t \o @.v \o u)] :
             t \in {<<>>, <<" ">>, <<"!">>}, u \in ShortStrings }
    \cup { [ValidParams(variant, PYSJ_SP) EXCEPT !.full_name = Str(t)] : t \in LongNames }

EnvValues == {Undefined, Str(<<>>), Str(<<"s", "e", "c", "r", "e", "t">>)}
ServiceAccountValues == {Undefined, Str(<<"{">>)} \cup {Str(j) : j \in ValidServiceAccountJson}

Token1 == <<"t", "o", "k">>
Badge1 == <<"b", "1">>
Badge2 == <<"b", "2">>

TokenResponses ==
    { [NoTokenResponse EXCEPT !.threw = TRUE] }
    \cup { [threw |-> FALSE, ok |-> ok, json |-> j, access_token |-> Undefined] :
             ok \in BOOLEAN, j \in {"invalid", "null"} }
    \cup { [threw |-> FALSE, ok |-> ok, json |-> "object", access_token |-> t] :
             ok \in BOOLEAN, t \in {Undefined, Null, Str(<<>>), Str(Token1)} }

BadgeResponses ==
    { [NoBadgeResponse EXCEPT !.threw = TRUE] }
    \cup { [threw |-> FALSE, ok |-> ok, json |-> j, result |-> "undefined", openBadgeId |-> Undefined] :
             ok \in BOOLEAN, j \in {"invalid", "null"} }
    \cup { [threw |-> FALSE, ok |-> ok, json |-> "object", result |-> res, openBadgeId |-> Undefined] :
             ok \in BOOLEAN, res \in {"undefined", "notArray", "empty", "firstNull"} }
    \cup { [threw |-> FALSE, ok |-> ok, json |-> "object", result |-> "list", openBadgeId |-> b] :
             ok \in BOOLEAN, b \in {Undefined, Str(<<>>), Str(Badge1), Str(Badge2)} }

\* fetch threw, returned a non-success status, or returned success
FetchOutcomes == {"threw", "not_ok", "ok"}
\* auth.getClient()/client.getAccessToken(): threw, no token, or a token
GoogleTokenOutcomes == {"threw", "no_token", "token"}

(***************************************************************************)
(* The handler, one action per stretch of code between two awaits.         *)
(***************************************************************************)
\* Step 0 and the method check, up to "await request.text()"
HandlerInvokedFrom(i, pairs, methods) ==
    /\ h[i].pc = "start"
    /\ \E hdrs \in pairs, method \in methods :
         LET origin == hdrs[1]
             referer == hdrs[2]
             r == [h[i] EXCEPT !.origin = origin, !.referer = referer, !.method = method]
             originHeader == OrElse(origin, referer)
         IN h' = [h EXCEPT ![i] =
                IF ~OriginAllowed(originHeader) THEN Respond(r, 403, "Forbidden")
                ELSE IF method # "POST" THEN Respond(r, 405, "Method Not Allowed")
                ELSE [r EXCEPT !.pc = "awaitBody"]]

HandlerInvoked(i) == HandlerInvokedFrom(i, HeaderPairs, Methods)

\* the issuer account of the handler
BADGR_USERNAME == Str(<<"c", "o", "u", "r", "s", "e", "s", "@", "i", "b", "i", "o", "l", "o", "g", "y", ".", "o", "r", "g">>)

\* a credentials test that only looks at the user name
CredentialsMissing_usernameOnly(BADGR_PASSWORD) ==
    ~Truthy(BADGR_USERNAME)

\* !BADGR_USERNAME || !BADGR_PASSWORD
CredentialsMissing(BADGR_PASSWORD) ==
    ~Truthy(BADGR_USERNAME) \/ ~Truthy(BADGR_PASSWORD)

\* from the body check to the token fetch of Step 1; forms gives, per
\* variant of the handler, the decoded bodies tried
BodyReadFrom(i, forms, passwords) ==
    /\ h[i].pc = "awaitBody"
    /\ \/ h' = [h EXCEPT ![i] =
                  Respond([@ EXCEPT !.bodyText = "empty"], 400, "Missing request body")]
       \/ \E params \in forms[h[i].variant], BADGR_PASSWORD \in passwords :
            LET r == Sanitized([h[i] EXCEPT !.bodyText = "form"], params)
                failure == ValidationFailure(r)
            IN h' = [h EXCEPT ![i] =
                   IF failure # NoResponse THEN Respond(r, failure.status, failure.text)
                   ELSE IF CredentialsMissing(BADGR_PASSWORD)
                   THEN Respond([r EXCEPT !.BADGR_PASSWORD = BADGR_PASSWORD],
                                500, "Badgr credentials not configured.")
                   ELSE [r EXCEPT !.BADGR_PASSWORD = BADGR_PASSWORD,
                                  !.calls.token = @ + 1,
                                  !.pc = "awaitToken"]]

FormsOf == [variant \in Variants |-> Forms(variant)]

BodyRead(i) == BodyReadFrom(i, FormsOf, EnvValues)

\* the token fetch returns or throws; on success the badge fetch is issued
TokenReturnsFrom(i, responses) ==
    /\ h[i].pc = "awaitToken"
    /\ \E resp \in responses :
         h' = [h EXCEPT ![i] = AfterTokenResponse(@, resp)]

TokenReturns(i) == TokenReturnsFrom(i, TokenResponses)

\* the badge fetch returns or throws; on success Step 3 (and, when sendEmail
\* throws before its fetch, Step 4) starts
BadgeReturnsFrom(i, responses, env, serviceAccounts) ==
    /\ h[i].pc = "awaitBadge"
    /\ \E resp \in responses :
         \/ /\ BadgeStepThrows(resp) \/ h[i].variant # "full"
            /\ h' = [h EXCEPT ![i] = AfterBadgeResponse(@, resp, Undefined, Undefined, Undefined)]
         \/ /\ ~BadgeStepThrows(resp) /\ h[i].variant = "full"
            /\ \E postmarkToken \in env :
                 \/ /\ Truthy(postmarkToken)
                    /\ h' = [h EXCEPT ![i] =
                              AfterBadgeResponse(@, resp, postmarkToken, Undefined, Undefined)]
                 \/ /\ ~Truthy(postmarkToken)
                    /\ \E sheetId \in env, serviceAccountJson \in serviceAccounts :
                         h' = [h EXCEPT ![i] =
                                 AfterBadgeResponse(@, resp, postmarkToken, sheetId, serviceAccountJson)]

BadgeReturns(i) == BadgeReturnsFrom(i, BadgeResponses, EnvValues, ServiceAccountValues)

\* the Postmark fetch returns or throws; either way Step 4 starts
EmailReturnsFrom(i, outcomes, env, serviceAccounts) ==
    /\ h[i].pc = "awaitEmail"
    /\ \E outcome \in outcomes, sheetId \in env, serviceAccountJson \in serviceAccounts :
         h' = [h EXCEPT ![i] =
                 StartSheetTask(
                     [@ EXCEPT !.emailTask = CASE outcome = "threw" -> "threw"
                                               [] outcome = "not_ok" -> "api_error"
                                               [] OTHER -> "sent"],
                     sheetId, serviceAccountJson)]

EmailReturns(i) == EmailReturnsFrom(i, FetchOutcomes, EnvValues, ServiceAccountValues)

\* the Google token exchange returns or throws; on success the append
\* fetch is issued, otherwise the error is caught and the handler answers
SheetTokenReturnsFrom(i, outcomes) ==
    /\ h[i].pc = "awaitSheetToken"
    /\ \E outcome \in outcomes :
         h' = [h EXCEPT ![i] =
                 IF outcome = "token"
                 THEN [@ EXCEPT !.sheetTask = "append_pending",
                                !.calls.sheetAppend = @ + 1,
                                !.pc = "awaitAppend"]
                 ELSE Acknowledge([@ EXCEPT !.sheetTask =
                          IF outcome = "threw" THEN "token_threw" ELSE "token_missing"])]

SheetTokenReturns(i) == SheetTokenReturnsFrom(i, GoogleTokenOutcomes)

\* the append fetch returns or throws; the handler answers
AppendReturnsFrom(i, outcomes) ==
    /\ h[i].pc = "awaitAppend"
    /\ \E outcome \in outcomes :
         h' = [h EXCEPT ![i] =
                 Acknowledge([@ EXCEPT !.sheetTask = CASE outcome = "threw" -> "append_threw"
                                                       [] outcome = "not_ok" -> "api_error"
                                                       [] OTHER -> "updated"])]

AppendReturns(i) == AppendReturnsFrom(i, FetchOutcomes)

Init == h \in [Invocations -> {Invoked(v) : v \in Variants}]

Next ==
    \E i \in Invocations :
        \/ HandlerInvoked(i)
        \/ BodyRead(i)
        \/ TokenReturns(i)
        \/ BadgeReturns(i)
        \/ EmailReturns(i)
        \/ SheetTokenReturns(i)
        \/ AppendReturns(i)

Spec == Init /\ [][Next]_vars

(***************************************************************************)
(* The handler with an access-code table that lost an entry.  The two      *)
(* tables of the repository have the same keys, so the branch "Internal    *)
(* configuration error" cannot be taken with them; it guards against an    *)
(* edit that adds a course to badgeClassToCourseId only.  This             *)
(* specification runs the same handler on the tables as committed and on   *)
(* the access-code table without the entry of one course.                  *)
(***************************************************************************)
WithoutKey(table, key) == [k \in DOMAIN table \ {key} |-> table[k]]

InitRegistryEdit ==
    h \in [Invocations ->
             {Invoked(v) : v \in Variants}
             \cup {[Invoked(v) EXCEPT !.accessCodes = WithoutKey(@, PYSJ_SP)] : v \in Variants}]

SpecRegistryEdit == InitRegistryEdit /\ [][Next]_vars

(***************************************************************************)
(* Two invocations of the handler running at once.  The platform starts a  *)
(* fresh invocation per request; the module keeps no mutable state (the    *)
(* tables are constants), so an invocation reads and writes its own        *)
(* variables only.  The steps of the two invocations interleave freely.    *)
(* Both submit requests drawn from the same few: the valid form of one     *)
(* badge class, the same with a wrong access code, an empty form and an    *)
(* empty body, from the trusted origin, a foreign one or none.             *)
(***************************************************************************)
ConcurrentInvocations == {"inv1", "inv2"}

ResubmittedHeaders ==
    {<<Null, Null>>, <<Str(TrustedOrigin), Null>>, <<Str(ForeignOrigin), Null>>}

ResubmittedForms ==
    [variant \in Variants |->
        { NoParams, ValidParams(variant, PYSJ_SP),
          [ValidParams(variant, PYSJ_SP) EXCEPT !.access_code = Str(<<"a">>)] }]

ConfiguredOrNot == {Undefined, Str(<<"s", "e", "c", "r", "e", "t">>)}

IssuerTokenAnswers ==
    { [NoTokenResponse EXCEPT !.threw = TRUE],
      [threw |-> FALSE, ok |-> TRUE, json |-> "object", access_token |-> Str(Token1)] }

IssuerBadgeAnswers ==
    { [NoBadgeResponse EXCEPT !.threw = TRUE] }
    \cup { [threw |-> FALSE, ok |-> TRUE, json |-> "object", result |-> "list",
            openBadgeId |-> Str(b)] : b \in {Badge1, Badge2} }

InitConcurrent == h \in [ConcurrentInvocations -> {Invoked(v) : v \in Variants}]

NextConcurrent ==
    \E i \in ConcurrentInvocations :
        \/ HandlerInvokedFrom(i, ResubmittedHeaders, {"POST", "GET"})
        \/ BodyReadFrom(i, ResubmittedForms, ConfiguredOrNot)
        \/ TokenReturnsFrom(i, IssuerTokenAnswers)
        \/ BadgeReturnsFrom(i, IssuerBadgeAnswers, ConfiguredOrNot, {Str(j) : j \in ValidServiceAccountJson})
        \/ EmailReturnsFrom(i, {"threw", "ok"}, ConfiguredOrNot, {Str(j) : j \in ValidServiceAccountJson})
        \/ SheetTokenReturnsFrom(i, {"threw", "token"})
        \/ AppendReturnsFrom(i, {"ok"})

SpecConcurrent == InitConcurrent /\ [][NextConcurrent]_vars

(***************************************************************************)
(* The handler under the assumption that the platform runs its code and    *)
(* that every upstream call eventually returns or throws: whenever a step  *)
(* of the invocation stays possible, one is taken.  The requests are a few *)
(* forms from any headers and methods; the environment and the answers of  *)
(* the upstream services range over all the cases of Spec.                 *)
(***************************************************************************)
NextEventually ==
    \E i \in Invocations :
        \/ HandlerInvokedFrom(i, HeaderPairs, Methods)
        \/ BodyReadFrom(i, ResubmittedForms, EnvValues)
        \/ TokenReturnsFrom(i, TokenResponses)
        \/ BadgeReturnsFrom(i, BadgeResponses, EnvValues, ServiceAccountValues)
        \/ EmailReturnsFrom(i, FetchOutcomes, EnvValues, ServiceAccountValues)
        \/ SheetTokenReturnsFrom(i, GoogleTokenOutcomes)
        \/ AppendReturnsFrom(i, FetchOutcomes)

SpecEventually == Init /\ [][NextEventually]_vars /\ WF_vars(NextEventually)

TypeOK ==
    \A i \in Invocations :
        /\ h[i].pc \in {"start", "awaitBody", "awaitToken", "awaitBadge",
                        "awaitEmail", "awaitSheetToken", "awaitAppend", "done"}
        /\ h[i].response.status \in {0, 200, 400, 403, 405, 500}

(***************************************************************************)
(* Properties.                                                             *)
(***************************************************************************)
IsNonEmptyString(x) == x.t = "string" /\ Len(x.v) > 0

\* the header the origin check looks at: Origin, or Referer when Origin is
\* absent or empty
EffectiveHeader(r) == IF IsNonEmptyString(r.origin) THEN r.origin ELSE r.referer

\* absent, empty, or differing from the trusted origin within its length
LacksTrustedOrigin(r) ==
    \/ ~IsNonEmptyString(EffectiveHeader(r))
    \/ \E k \in 1..Len(TrustedOrigin) :
          \/ k > Len(EffectiveHeader(r).v)
          \/ EffectiveHeader(r).v[k] # TrustedOrigin[k]

NoTaskStarted(r) == r.started.email = 0 /\ r.started.sheet = 0

\* C1: a request whose Origin (or, failing that, Referer) header is absent or
\* does not start with the trusted origin is answered 403 "Forbidden", and
\* no upstream call is made for it, whatever its method.
C1_UntrustedOriginForbidden ==
    \A i \in Invocations :
        (h[i].pc # "start" /\ LacksTrustedOrigin(h[i]))
        => /\ h[i].response = [status |-> 403, text |-> "Forbidden"]
           /\ UpstreamCalls(h[i]) = 0
           /\ NoTaskStarted(h[i])

\* a foreign Origin next to a trusted Referer, sent by GET, was refused
C1_Witness ==
    \E i \in Invocations :
        /\ h[i].pc = "done"
        /\ h[i].origin = Str(ForeignOrigin)
        /\ h[i].referer = Str(TrustedOrigin)
        /\ h[i].method = "GET"
        /\ h[i].response.status = 403

BadgeResponseArrived(r) == r.badgeResponse # NoBadgeResponse

\* the assertion call failed: it threw, answered a non-success status, had
\* no parsable body, no non-empty result list, or no openBadgeId in its
\* first result
BadgeCallFailed(r) ==
    \/ r.badgeResponse.threw
    \/ ~r.badgeResponse.ok
    \/ r.badgeResponse.json # "object"
    \/ r.badgeResponse.result # "list"
    \/ ~IsNonEmptyString(r.badgeResponse.openBadgeId)

\* C2: when the badge-assertion call fails in any way, the handler answers
\* 500 and neither the email task nor the spreadsheet task is started.
C2_BadgeFailureAborts ==
    \A i \in Invocations :
        (BadgeResponseArrived(h[i]) /\ BadgeCallFailed(h[i]))
        => /\ h[i].response.status = 500
           /\ NoTaskStarted(h[i])
           /\ h[i].calls.email = 0
           /\ h[i].calls.sheetToken = 0
           /\ h[i].calls.sheetAppend = 0

\* a success response whose first result carries an empty openBadgeId
C2_Witness ==
    \E i \in Invocations :
        /\ h[i].variant = "full"
        /\ h[i].badgeResponse.ok
        /\ h[i].badgeResponse.result = "list"
        /\ h[i].badgeResponse.openBadgeId = Str(<<>>)
        /\ h[i].response.status = 500

TokenResponseArrived(r) == r.tokenResponse # NoTokenResponse

HasAccessToken(resp) ==
    resp.json = "object" /\ IsNonEmptyString(resp.access_token)

\* C3: after validation, a token endpoint answer that is a non-success
\* response, or a success response without an access_token, makes the
\* handler answer 500; the assertion call and every later call never happen.
C3_TokenFailureAborts ==
    \A i \in Invocations :
        ( /\ TokenResponseArrived(h[i])
          /\ ~h[i].tokenResponse.threw
          /\ (~h[i].tokenResponse.ok \/ ~HasAccessToken(h[i].tokenResponse)) )
        => /\ h[i].response.status = 500
           /\ h[i].calls.token = 1
           /\ h[i].calls.assertion = 0
           /\ h[i].calls.email = 0
           /\ h[i].calls.sheetToken = 0
           /\ h[i].calls.sheetAppend = 0
           /\ NoTaskStarted(h[i])

\* a non-success token response whose body nevertheless carries a token
C3_Witness ==
    \E i \in Invocations :
        /\ ~h[i].tokenResponse.threw
        /\ ~h[i].tokenResponse.ok
        /\ h[i].tokenResponse.access_token = Str(Token1)
        /\ h[i].tokenResponse.json = "object"
        /\ h[i].response.status = 500

\* the request passed the gatekeeper and its body was parsed as a form
FormRead(r) == r.bodyText = "form"

AllRequiredPresent(r) ==
    /\ IsNonEmptyString(r.studentEmail)
    /\ IsNonEmptyString(r.badgeClassId)
    /\ IsNonEmptyString(r.accessCode)
    /\ (r.variant = "full" => IsNonEmptyString(r.fullName))

\* the request passed the gatekeeper, the missing-field check and the email
\* shape check
PassedEmailCheck(r) ==
    FormRead(r) /\ AllRequiredPresent(r) /\ isValidEmail(r.studentEmail.v)

RegisteredClass(r) ==
    r.badgeClassId.t = "string" /\ r.badgeClassId.v \in DOMAIN badgeClassToCourseId

WrongAccessCode(r) ==
    r.accessCode # Str(AccessCodeRegistry(r.variant)[r.badgeClassId.v])

InvalidAccessCode == [status |-> 403, text |-> "Invalid access code."]

\* C4 as stated: every request with a registered badge_class_id and a
\* sanitized access_code different from the registered one is answered 403
\* "Invalid access code." and causes no token or assertion call.
C4_AsStated ==
    \A i \in Invocations :
        (FormRead(h[i]) /\ RegisteredClass(h[i]) /\ WrongAccessCode(h[i]))
        => /\ h[i].response = InvalidAccessCode
           /\ h[i].calls.token = 0
           /\ h[i].calls.assertion = 0

\* C4 (amended): every request that passes the gatekeeper, the missing-field
\* check and the email shape check, with a registered badge_class_id and a
\* sanitized access_code different (case-sensitively) from the registered
\* one, is answered 403 "Invalid access code." with no token or assertion
\* call.
C4_WrongCodeForbidden ==
    \A i \in Invocations :
        (PassedEmailCheck(h[i]) /\ RegisteredClass(h[i]) /\ WrongAccessCode(h[i]))
        => /\ h[i].response = InvalidAccessCode
           /\ h[i].calls.token = 0
           /\ h[i].calls.assertion = 0

\* the registered code in lower case was refused
C4_Witness ==
    \E i \in Invocations :
        /\ PassedEmailCheck(h[i])
        /\ h[i].badgeClassId = Str(PYSJ_SP)
        /\ h[i].accessCode = Str(toLowerCase(AccessCodeRegistry(h[i].variant)[PYSJ_SP]))
        /\ h[i].response = InvalidAccessCode

\* C5: a request that passes the gatekeeper, the missing-field check and the
\* email shape check, and whose badge_class_id is not a key of the course
\* registry, fails with 400 "Invalid badge_class_id." before any network call.
C5_UnknownClassRejected ==
    \A i \in Invocations :
        (PassedEmailCheck(h[i]) /\ ~RegisteredClass(h[i]))
        => /\ h[i].response = [status |-> 400, text |-> "Invalid badge_class_id."]
           /\ UpstreamCalls(h[i]) = 0

\* stage 3 succeeded: the assertion call returned a non-empty openBadgeId
BadgeCreated(r) == BadgeResponseArrived(r) /\ ~BadgeCallFailed(r)

EmailFailed(r) == r.emailTask \in {"no_token", "threw", "api_error"}

\* C6: once the assertion call has returned an openBadgeId, the only response
\* the handler gives is the fixed 200 acknowledgment, whatever the outcomes
\* of the email task and of the spreadsheet task.
C6_AcknowledgedAfterBadge ==
    \A i \in Invocations :
        BadgeCreated(h[i])
        => /\ h[i].response.status \in {0, 200}
           /\ h[i].pc = "done" => h[i].response = [status |-> 200, text |-> FinalText(h[i].variant)]

\* the email provider refused, the spreadsheet is not configured: still 200
C6_Witness ==
    \E i \in Invocations :
        /\ BadgeCreated(h[i])
        /\ h[i].emailTask = "api_error"
        /\ h[i].sheetTask = "no_sheet_id"
        /\ h[i].response.status = 200

\* C7: once the assertion call has returned an openBadgeId, the handler of
\* publish_badge.mts starts the email task exactly once and the spreadsheet
\* task at most once, exactly once by the time it answers; as soon as the
\* email task has failed the spreadsheet task has been started.
C7_FanOutIsolated ==
    \A i \in Invocations :
        (h[i].variant = "full" /\ BadgeCreated(h[i]))
        => /\ h[i].started.email = 1
           /\ h[i].started.sheet <= 1
           /\ h[i].calls.email <= 1
           /\ (h[i].pc = "done" \/ EmailFailed(h[i])) => h[i].started.sheet = 1

\* sendEmail threw before its fetch and the spreadsheet append still ran
C7_Witness ==
    \E i \in Invocations :
        /\ h[i].variant = "full"
        /\ BadgeCreated(h[i])
        /\ h[i].emailTask = "no_token"
        /\ h[i].started.sheet = 1
        /\ h[i].sheetTask = "updated"

\* C8: a response with status 400, 403 or 405 is given with no upstream call
\* made and no task started in that invocation.
C8_ClientErrorsBeforeCalls ==
    \A i \in Invocations :
        h[i].response.status \in {400, 403, 405}
        => UpstreamCalls(h[i]) = 0 /\ NoTaskStarted(h[i])

\* a malformed email was refused with 400 although the issuer is configured
C8_Witness ==
    \E i \in Invocations :
        /\ h[i].response = [status |-> 400, text |-> "Invalid email format."]
        /\ RegisteredClass(h[i])
        /\ ~WrongAccessCode(h[i])
        /\ UpstreamCalls(h[i]) = 0

NotBlank(x) ==
    x.t = "string" /\ \E k \in 1..Len(x.v) : x.v[k] \notin WhiteSpace

\* C9: whenever the handler of publish_badge.mts proceeds past the
\* missing-field check, each of the normalized email, full_name,
\* badge_class_id and access_code is non-empty and not white space only.
C9_FieldsNotBlank ==
    \A i \in Invocations :
        ( /\ h[i].variant = "full"
          /\ FormRead(h[i])
          /\ h[i].response.text # "Missing required form data." )
        => /\ NotBlank(h[i].studentEmail)
           /\ NotBlank(h[i].fullName)
           /\ NotBlank(h[i].badgeClassId)
           /\ NotBlank(h[i].accessCode)

\* C10: the normalized full_name is at most 100 characters long and consists
\* of letters, digits, white space, apostrophes and hyphens only.
C10_FullNameClean ==
    \A i \in Invocations :
        (h[i].variant = "full" /\ FormRead(h[i]) /\ IsNonEmptyString(h[i].params.full_name))
        => /\ Len(h[i].fullName.v) <= 100
           /\ \A k \in 1..Len(h[i].fullName.v) :
                h[i].fullName.v[k] \in Letters \cup Digits \cup WhiteSpace \cup {"'", "-"}

ValidationTexts ==
    {"Missing required form data.", "Invalid email format.", "Invalid badge_class_id.",
     "Internal configuration error", "Invalid access code."}

\* the form was read and no validation check answered: the handler went on
\* to the credentials and the token step
AcceptedByValidation(r) == FormRead(r) /\ r.response.text \notin ValidationTexts

\* C11: every badge_class_id accepted by validation is a key of the course
\* table and of the access-code table; a request that passes the earlier
\* checks with a badge_class_id that is in the course table but not in the
\* access-code table is answered 500 "Internal configuration error" with
\* no upstream call.
C11_RegistryConsistency ==
    \A i \in Invocations :
        /\ AcceptedByValidation(h[i])
           => /\ h[i].badgeClassId.v \in DOMAIN badgeClassToCourseId
              /\ h[i].badgeClassId.v \in DOMAIN h[i].accessCodes
        /\ ( /\ PassedEmailCheck(h[i])
             /\ RegisteredClass(h[i])
             /\ h[i].badgeClassId.v \notin DOMAIN h[i].accessCodes )
           => /\ h[i].response = [status |-> 500, text |-> "Internal configuration error"]
              /\ UpstreamCalls(h[i]) = 0

\* a course whose access code is missing from the table was requested with
\* the code the committed table has for it
C11_Witness ==
    \E i \in Invocations :
        /\ PassedEmailCheck(h[i])
        /\ h[i].badgeClassId = Str(PYSJ_SP)
        /\ PYSJ_SP \notin DOMAIN h[i].accessCodes
        /\ h[i].accessCode = Str(AccessCodeRegistry(h[i].variant)[PYSJ_SP])
        /\ h[i].response.status = 500

\* a request from the trusted origin, by POST, with a well-shaped email, a
\* non-empty name, a registered badge class and its registered access code
\* (the fields as normalized by the handler)
WellFormedRequest(r) ==
    /\ ~LacksTrustedOrigin(r)
    /\ r.method = "POST"
    /\ PassedEmailCheck(r)
    /\ RegisteredClass(r)
    /\ ~WrongAccessCode(r)

TokenObtained(r) ==
    /\ TokenResponseArrived(r)
    /\ ~r.tokenResponse.threw
    /\ r.tokenResponse.ok
    /\ HasAccessToken(r.tokenResponse)

\* C12: in publish_badge.mts a well-formed request for a registered badge
\* class with its registered access code goes through every stage whose
\* predecessors succeeded: the token call, the assertion call, the email
\* task and the spreadsheet append, both given exactly the openBadgeId the
\* assertion call returned; when all of them succeed the response is 200.
C12_HappyPath ==
    \A i \in Invocations :
        ( /\ h[i].variant = "full"
          /\ WellFormedRequest(h[i])
          /\ IsNonEmptyString(h[i].BADGR_PASSWORD) )
        => /\ h[i].calls.token = 1
           /\ TokenObtained(h[i]) => h[i].calls.assertion = 1
           /\ (TokenObtained(h[i]) /\ BadgeCreated(h[i]))
              => /\ h[i].started.email = 1
                 /\ h[i].emailTo = h[i].studentEmail
                 /\ h[i].emailBadgeUrl = h[i].badgeResponse.openBadgeId
                 /\ h[i].response.status \in {0, 200}
                 /\ h[i].emailTask = "sent"
                    => /\ h[i].calls.email = 1
                       /\ h[i].started.sheet = 1
                       /\ h[i].sheetRow = <<h[i].fullName, h[i].studentEmail,
                                            h[i].badgeResponse.openBadgeId>>
                       /\ h[i].sheetTask = "updated"
                          => /\ h[i].calls.sheetToken = 1
                             /\ h[i].calls.sheetAppend = 1
                             /\ h[i].response.status = 200

\* scenario 1 of the specification, answered 200 with both tasks done
C12_Witness ==
    \E i \in Invocations :
        /\ h[i].variant = "full"
        /\ WellFormedRequest(h[i])
        /\ h[i].params = Params(Str(ValidEmailText), Str(PYSJ_SP),
                                Str(badgeClassToAccessCode[PYSJ_SP]), Str(ValidNameText))
        /\ h[i].badgeResponse.openBadgeId = Str(Badge2)
        /\ h[i].emailBadgeUrl = Str(Badge2)
        /\ h[i].emailTask = "sent"
        /\ h[i].sheetTask = "updated"
        /\ h[i].sheetRow[3] = Str(Badge2)
        /\ h[i].response.status = 200

\* C13: a request that passed validation while the issuer password is not
\* configured (absent or empty) is answered 500 'Badgr credentials not
\* configured.' and no upstream call is made: no token, assertion, email or
\* spreadsheet call, and neither task is started.
C13_CredentialsFailClosed ==
    \A i \in Invocations :
        ( /\ PassedEmailCheck(h[i])
          /\ RegisteredClass(h[i])
          /\ ~WrongAccessCode(h[i])
          /\ ~IsNonEmptyString(h[i].BADGR_PASSWORD) )
        => /\ h[i].response = [status |-> 500, text |-> "Badgr credentials not configured."]
           /\ h[i].pc = "done"
           /\ h[i].calls = NoCalls
           /\ UpstreamCalls(h[i]) = 0
           /\ NoTaskStarted(h[i])

\* a valid request answered 500 for the environment without BADGR_PASSWORD,
\* and another for the empty one
C13_Witness ==
    \E i \in Invocations :
        /\ PassedEmailCheck(h[i])
        /\ RegisteredClass(h[i])
        /\ ~WrongAccessCode(h[i])
        /\ h[i].BADGR_PASSWORD = Str(<<>>)
        /\ h[i].response.status = 500
        /\ UpstreamCalls(h[i]) = 0

\* what an invocation received: its request, its environment and the
\* answers of the issuer
SameInputs(r1, r2) ==
    \A f \in {"variant", "accessCodes", "origin", "referer", "method", "bodyText",
              "params", "BADGR_PASSWORD", "tokenResponse", "badgeResponse"} :
        r1[f] = r2[f]

\* C14: of two invocations running one after the other or interleaved, each
\* well-formed one makes its own token call, after obtaining a token its own
\* assertion call, and (in publish_badge.mts) after its badge was created
\* starts its own email to its own recipient, whatever the other invocation
\* did for the same recipient and badge class; and two finished invocations
\* that received the same inputs gave the same response.
C14_InvocationsIndependent ==
    /\ \A i \in ConcurrentInvocations :
        ( /\ WellFormedRequest(h[i])
          /\ IsNonEmptyString(h[i].BADGR_PASSWORD) )
        => /\ h[i].calls.token = 1
           /\ TokenObtained(h[i]) => h[i].calls.assertion = 1
           /\ (TokenObtained(h[i]) /\ BadgeCreated(h[i]) /\ h[i].variant = "full")
              => /\ h[i].started.email = 1
                 /\ h[i].emailTo = h[i].studentEmail
                 /\ h[i].emailBadgeUrl = h[i].badgeResponse.openBadgeId
    /\ \A i, j \in ConcurrentInvocations :
        ( /\ h[i].pc = "done" /\ h[j].pc = "done"
          /\ SameInputs(h[i], h[j]) )
        => h[i].response = h[j].response

\* two invocations with identical valid fields, both answered 200, each
\* having made its own token and assertion calls and started its own email
C14_Witness ==
    /\ h["inv1"].params = h["inv2"].params
    /\ \A i \in ConcurrentInvocations :
        /\ h[i].variant = "full"
        /\ WellFormedRequest(h[i])
        /\ h[i].response.status = 200
        /\ h[i].calls.token = 1
        /\ h[i].calls.assertion = 1
        /\ h[i].started.email = 1

\* C15: in every variant of the handler, a 200 acknowledgment is returned
\* only after the email task was invoked with the validated recipient email
\* and the badge identifier produced by the assertion call.
C15_EmailBeforeAcknowledgment ==
    \A i \in Invocations :
        h[i].response.status = 200
        => /\ h[i].started.email = 1
           /\ h[i].emailTo = h[i].studentEmail
           /\ BadgeCreated(h[i])
           /\ h[i].emailBadgeUrl = h[i].badgeResponse.openBadgeId

\* C16: in every invocation each of the five external calls is issued at
\* most once; the assertion call only after the token call returned a token;
\* the email call and the spreadsheet token exchange only after the
\* assertion call returned a badge; the spreadsheet append only after its
\* token exchange returned a token; and while the token call (the assertion
\* call) is awaited no later call has been issued.
C16_CallOrder ==
    \A i \in Invocations :
        /\ \A c \in DOMAIN h[i].calls : h[i].calls[c] \in {0, 1}
        /\ h[i].calls.assertion = 1 => (h[i].calls.token = 1 /\ TokenObtained(h[i]))
        /\ h[i].calls.email = 1 => (h[i].calls.assertion = 1 /\ BadgeCreated(h[i]))
        /\ h[i].calls.sheetToken = 1 => (h[i].calls.assertion = 1 /\ BadgeCreated(h[i]))
        /\ h[i].calls.sheetAppend = 1
           => /\ h[i].calls.sheetToken = 1
              /\ h[i].sheetTask \in {"append_pending", "append_threw", "api_error", "updated"}
        /\ h[i].pc = "awaitToken"
           => h[i].calls = [NoCalls EXCEPT !.token = 1]
        /\ h[i].pc = "awaitBadge"
           => h[i].calls = [NoCalls EXCEPT !.token = 1, !.assertion = 1]
        /\ h[i].pc \in {"start", "awaitBody"} => h[i].calls = NoCalls

\* an invocation that made each of the five calls once
C16_Witness ==
    \E i \in Invocations :
        /\ h[i].pc = "done"
        /\ \A c \in DOMAIN h[i].calls : h[i].calls[c] = 1

\* C17: a 200 response implies that in this invocation the origin was
\* trusted, the method was POST, the body was a non-empty form, all required
\* fields were non-empty after normalization, the email had the required
\* shape, the badge class was a key of both registries, the access code
\* equalled the registered one, the issuer password was configured, the
\* token call returned a non-empty token and the assertion call returned a
\* non-empty openBadgeId.
C17_SuccessImpliesAllGates ==
    \A i \in Invocations :
        h[i].response.status = 200
        => /\ ~LacksTrustedOrigin(h[i])
           /\ h[i].method = "POST"
           /\ FormRead(h[i])
           /\ AllRequiredPresent(h[i])
           /\ isValidEmail(h[i].studentEmail.v)
           /\ h[i].badgeClassId.v \in DOMAIN badgeClassToCourseId
           /\ h[i].badgeClassId.v \in DOMAIN AccessCodeRegistry(h[i].variant)
           /\ h[i].accessCode = Str(AccessCodeRegistry(h[i].variant)[h[i].badgeClassId.v])
           /\ IsNonEmptyString(h[i].BADGR_PASSWORD)
           /\ ~h[i].tokenResponse.threw /\ h[i].tokenResponse.ok
           /\ h[i].tokenResponse.json = "object"
           /\ IsNonEmptyString(h[i].tokenResponse.access_token)
           /\ ~h[i].badgeResponse.threw /\ h[i].badgeResponse.ok
           /\ h[i].badgeResponse.result = "list"
           /\ IsNonEmptyString(h[i].badgeResponse.openBadgeId)

\* a 200 given to a request that carried its trusted origin in the Referer
\* header only, with padded fields
C17_Witness ==
    \E i \in Invocations :
        /\ h[i].response.status = 200
        /\ ~IsNonEmptyString(h[i].origin)
        /\ h[i].referer = Str(TrustedOrigin)
        /\ h[i].params.badge_class_id # h[i].badgeClassId

\* the response the stated order of checks gives to what the invocation has
\* received so far: origin, method, empty body, missing field, email shape,
\* course registry, access-code registry, access-code match, credentials
FirstFailure(r) ==
    IF LacksTrustedOrigin(r) THEN [status |-> 403, text |-> "Forbidden"]
    ELSE IF r.method # "POST" THEN [status |-> 405, text |-> "Method Not Allowed"]
    ELSE IF r.bodyText = "none" THEN NoResponse
    ELSE IF r.bodyText = "empty" THEN [status |-> 400, text |-> "Missing request body"]
    ELSE IF ~AllRequiredPresent(r) THEN [status |-> 400, text |-> "Missing required form data."]
    ELSE IF ~isValidEmail(r.studentEmail.v) THEN [status |-> 400, text |-> "Invalid email format."]
    ELSE IF r.badgeClassId.v \notin DOMAIN badgeClassToCourseId
    THEN [status |-> 400, text |-> "Invalid badge_class_id."]
    ELSE IF r.badgeClassId.v \notin DOMAIN r.accessCodes
    THEN [status |-> 500, text |-> "Internal configuration error"]
    ELSE IF r.accessCode # Str(r.accessCodes[r.badgeClassId.v]) THEN InvalidAccessCode
    ELSE IF ~IsNonEmptyString(r.BADGR_PASSWORD)
    THEN [status |-> 500, text |-> "Badgr credentials not configured."]
    ELSE NoResponse

\* C18: the response is the one of the first failing check in the order
\* origin (403), method (405), empty body (400), missing field (400), email
\* shape (400), course registry (400), access-code registry (500),
\* access-code match (403), issuer credentials (500); when no check fails
\* the invocation goes on to the token call.
C18_FirstFailurePrecedence ==
    \A i \in Invocations :
        h[i].pc \notin {"start", "awaitBody"}
        => IF FirstFailure(h[i]) # NoResponse
           THEN h[i].response = FirstFailure(h[i]) /\ UpstreamCalls(h[i]) = 0
           ELSE h[i].calls.token = 1

ResponseStatuses == {200, 400, 403, 405, 500}

Responded(r) == r.pc = "done" /\ r.response.status \in ResponseStatuses

\* C19: when every upstream call eventually returns or throws, every
\* invocation eventually produces a response with status 200, 400, 403, 405
\* or 500, whatever the upstream calls did; a response once produced is
\* never replaced, and there is none before the handler is done.
C19_Termination ==
    /\ \A i \in Invocations : <>Responded(h[i])
    /\ [][\A i \in Invocations :
            h[i].response # NoResponse => h'[i].response = h[i].response]_vars
    /\ [](\A i \in Invocations : h[i].response # NoResponse <=> h[i].pc = "done")

\* the handler answered although the email fetch and the append fetch threw
C19_Witness ==
    \E i \in Invocations :
        /\ Responded(h[i])
        /\ h[i].emailTask = "threw"
        /\ h[i].sheetTask = "append_threw"

====
